---- MODULE Spec2Model ----
(***************************************************************************)
(* Model of the dataswap-shed chunked proof submission engine:             *)
(*   src/src/dataset/proof/repo/index.ts  (submitDatasetProof,             *)
(*       submitDatasetChallengeProofs, handlerSubmitDatasetProof,          *)
(*       handlerSubmitDatasetProofRoot, the two criteria checks)           *)
(*   src/unnamed/part_000                 (DatasetProofSubmitInfo)         *)
(*   src/unnamed/part_004                 (handleEvmError, FileLock)       *)
(*   src/unnamed/part_000                 (submitDatasetMetadata,          *)
(*       updateDatasetTimeoutParameters, function and class versions)      *)
(*   src/unnamed/part_006                 (Matching.formatRange)           *)
(* Each CLI invocation is a process; every awaited gateway call is one     *)
(* step, whose answer (ok / error, applied / silently dropped) is chosen   *)
(* by the environment.  The ledger and the file system are shared.         *)
(***************************************************************************)
EXTENDS Integers, Sequences, FiniteSets, TLC

\* ------------------------------------------------------------------ bounds
MaxLeaves == 3        \* the proof artifact holds 0..MaxLeaves leaves
MaxChunk == 2         \* the --chunk option ranges over 0..MaxChunk
MaxRuns == 2          \* invocations started in one behaviour
WinLeaves == 10       \* SpecWin: the proof artifact holds 0..WinLeaves leaves
WinChunk == 4         \* SpecWin: the --chunk option ranges over 1..WinChunk
FirstId == 8          \* SpecRange: ids range over FirstId..FirstId + IdSpan
IdSpan == 4
MaxIds == 3           \* SpecRange: formatRange gets lists of 0..MaxIds ids
MaxBlocks == 2        \* SpecMeta: block counts range over 0..MaxBlocks

Procs == {1, 2}
Solo == {1}           \* Spec: one process, invoked again and again
MaxTxs == MaxLeaves + 1   \* cap on chunk transactions of one invocation

\* ------------------------------------------------------------- data values
defaultEthAddress == "0x0"
account == "acct"
DataTypeSource == 0
OtherDataType == DataTypeSource + 1   \* a second --dataType of the same dataset
TargetDatasetId == 1
ChallengePath == <<"c">>
Seed == "seed"

Min(a, b) == IF a <= b THEN a ELSE b

\* Fault variant: the end index is taken as inclusive.
Slice_Inclusive(s, a, b) == SubSeq(s, a + 1, Min(b + 1, Len(s)))

\* Array.prototype.slice(a, b) for 0 <= a, 0 <= b (0-based, end exclusive,
\* clamped to the length).
Slice(s, a, b) == SubSeq(s, a + 1, Min(b, Len(s)))

Digit(d) ==
    CASE d = 0 -> "0" [] d = 1 -> "1" [] d = 2 -> "2" [] d = 3 -> "3"
      [] d = 4 -> "4" [] d = 5 -> "5" [] d = 6 -> "6" [] d = 7 -> "7"
      [] d = 8 -> "8" [] OTHER -> "9"

\* String(n) of a non-negative integer, as a sequence of characters.
RECURSIVE Str(_)
Str(n) == IF n < 10 THEN <<Digit(n)>> ELSE Str(n \div 10) \o <<Digit(n % 10)>>

\* FileLock constructor: lockFilePath = `${filePath}.lock`
FileLock(filePath) == filePath \o <<".lock">>

\* fs.writeFileSync(path, "") and fs.unlinkSync(path) on the set of files.
WriteFile(files, path) == files \cup {path}
\* Fault variant: the lock file is left in place.
Unlink_Keep(files, path) == files
Unlink(files, path) == files \ {path}

\* Fault variant: the file is opened for exclusive creation (flag 'wx').
WriteSucceeds_Exclusive(files, path, fsok) == fsok /\ path \notin files

\* try { fs.writeFileSync(lockFilePath, "") ... } catch: the default flag
\* 'w' creates or truncates, so only a failing write throws.
WriteSucceeds(files, path, fsok) == fsok

\* Fault variant: the caller gives up when the lock was not acquired.
LockFailureStops_Fatal(got) == ~got

\* if (!lock.acquireLock()) { console.log(...) }: the branch only logs.
LockFailureStops(got) == FALSE

ProofLockKey(datasetId, dataType) == Str(datasetId) \o Str(dataType)
ChallengeLockKey(datasetId, path) == Str(datasetId) \o path

\* The proof artifact { Root, LeafHashes, LeafSizes } with n leaves.
DatasetProof(n) ==
    [Root |-> "root", LeafHashes |-> [i \in 1..n |-> i],
     LeafSizes |-> [i \in 1..n |-> 2 * i]]

\* new DatasetProofSubmitInfo({... chunk, completed: false, leafIndex: 0,
\* leafHashes: [], leafSizes: []})
NewSubmitInfo(chunk) ==
    [leafIndex |-> 0, leafHashes |-> <<>>, leafSizes |-> <<>>,
     chunk |-> chunk, completed |-> FALSE]

\* Fault variant: the index read from the ledger is not stored.
updateleafIndex_Stale(info, leafIndex) == info

updateleafIndex(info, leafIndex) == [info EXCEPT !.leafIndex = leafIndex]

\* Fault variant: the window is sliced from the start of the sequence.
updateDatasetProof_FromZero(info, proof) ==
    IF info.leafIndex + info.chunk >= Len(proof.LeafHashes)
    THEN [info EXCEPT
            !.leafHashes = Slice(proof.LeafHashes, 0, Len(proof.LeafHashes)),
            !.leafSizes = Slice(proof.LeafSizes, 0, Len(proof.LeafSizes)),
            !.completed = TRUE]
    ELSE [info EXCEPT
            !.leafHashes = Slice(proof.LeafHashes, 0, info.leafIndex + info.chunk),
            !.leafSizes = Slice(proof.LeafSizes, 0, info.leafIndex + info.chunk)]

\* Fault variant: every window is flagged as the last one.
updateDatasetProof_AlwaysLast(info, proof) ==
    [info EXCEPT
        !.leafHashes = Slice(proof.LeafHashes, info.leafIndex, info.leafIndex + info.chunk),
        !.leafSizes = Slice(proof.LeafSizes, info.leafIndex, info.leafIndex + info.chunk),
        !.completed = TRUE]

\* Fault variant: `>` for `>=` in the test for the last window.
updateDatasetProof_Strict(info, proof) ==
    IF info.leafIndex + info.chunk > Len(proof.LeafHashes)
    THEN [info EXCEPT
            !.leafHashes = Slice(proof.LeafHashes, info.leafIndex, Len(proof.LeafHashes)),
            !.leafSizes = Slice(proof.LeafSizes, info.leafIndex, Len(proof.LeafSizes)),
            !.completed = TRUE]
    ELSE [info EXCEPT
            !.leafHashes = Slice(proof.LeafHashes, info.leafIndex, info.leafIndex + info.chunk),
            !.leafSizes = Slice(proof.LeafSizes, info.leafIndex, info.leafIndex + info.chunk)]

updateDatasetProof(info, proof) ==
    IF info.leafIndex + info.chunk >= Len(proof.LeafHashes)
    THEN [info EXCEPT
            !.leafHashes = Slice(proof.LeafHashes, info.leafIndex, Len(proof.LeafHashes)),
            !.leafSizes = Slice(proof.LeafSizes, info.leafIndex, Len(proof.LeafSizes)),
            !.completed = TRUE]
    ELSE [info EXCEPT
            !.leafHashes = Slice(proof.LeafHashes, info.leafIndex, info.leafIndex + info.chunk),
            !.leafSizes = Slice(proof.LeafSizes, info.leafIndex, info.leafIndex + info.chunk)]

\* Fault variant: the counter is compared with the start of the window.
Current_Start(info, proof) == info.leafIndex

\* const current = Math.min(leafIndex + chunk, LeafHashes.length)
Current(info, proof) == Min(info.leafIndex + info.chunk, Len(proof.LeafHashes))

\* Fault variant: the read-back counter is not compared.
CountMismatch_Never(index, info, proof) == FALSE

\* if (index !== current) return false
CountMismatch(index, info, proof) == index # Current(info, proof)

\* JavaScript `!v` for the values the handlers produce: the awaited booleans
\* and a Promise object, which is truthy whatever it later resolves to.
JsNot(v) == v = "false"

\* The value of the expression handlerSubmitDatasetProofRoot(options) as the
\* caller tests it: the call is not awaited, so it is the Promise.
RootCallValue == "promise"

\* Fault variant: the root is submitted whatever the submitter query says.
SubmitterIsNull_Always(s) == TRUE

\* if (submitter == defaultEthAddress)
SubmitterIsNull(s) == s = defaultEthAddress

\* checkSubmissionProofsCriteria: false when all proofs are completed.
checkSubmissionProofsCriteria(isAllCompleted) == ~isAllCompleted

\* checkSubmissionChallengeProofsCriteria: its two tests, each on the answer
\* it awaits; either one makes it return false.
DuplicateBlocks(isDuplicate) == isDuplicate
\* Fault variant: the answer of the winner query is ignored.
NotWinnerBlocks_Never(isWinner) == FALSE
NotWinnerBlocks(isWinner) == ~isWinner


\* ------------------------------------------------------------ metadata repo
FileAccessMethod == "am"
AccessMethods == {FileAccessMethod, "other"}
DatasetIds == 1..(Cardinality(AccessMethods) + MaxRuns)

\* Fault variant: the metadata is submitted whatever the ledger answers.
HadSubmitted_Never(has) == FALSE

\* if (await handleEvmError(hasDatasetMetadata(accessMethod))) { ... } else
HadSubmitted(has) == has

\* Fault variant: every pair of block counts is taken as valid.
isDatasetTimeoutParametersValid_Always(proofBlockCount, auditBlockCount, min) == TRUE

\* return options.proofBlockCount >= minProofBlockCount &&
\*        options.auditBlockCount >= minAuditBlockCount ? true : false
isDatasetTimeoutParametersValid(proofBlockCount, auditBlockCount, min) ==
    proofBlockCount >= min.proof /\ auditBlockCount >= min.audit

\* options.proofBlockCount > minProofBlockCount ? options.proofBlockCount
\*                                              : minProofBlockCount + BigInt(1)
Raise(blockCount, minBlockCount) ==
    IF blockCount > minBlockCount THEN blockCount ELSE minBlockCount + 1

\* ------------------------------------------------------ Matching.formatRange
\* sortedIds[i] of a JavaScript array: the element, or undefined past the
\* end.  A defined value v is <<v>>, undefined is <<>>.
ElementAt(s, i) == IF i + 1 \in DOMAIN s THEN <<s[i + 1]>> ELSE <<>>

\* `${v}` of a bigint or of undefined.
Template(v) == IF v = <<>> THEN <<"undefined">> ELSE Str(v[1])

\* Array.from(new Set(ids)): the first occurrence of every value, in order.
RECURSIVE Dedupe(_)
Dedupe(s) ==
    IF s = <<>> THEN <<>>
    ELSE LET front == Dedupe(SubSeq(s, 1, Len(s) - 1))
             last == s[Len(s)]
         IN IF \E i \in DOMAIN front : front[i] = last THEN front
            ELSE Append(front, last)

\* The comparator (a, b) => Number(a) - Number(b) puts a before b when the
\* difference is negative.
Before(a, b) == a - b < 0

\* Array.prototype.sort(compare) on distinct values.
RECURSIVE Sort(_)
Sort(s) ==
    IF s = <<>> THEN <<>>
    ELSE LET i == CHOOSE j \in DOMAIN s : \A k \in DOMAIN s : k # j => Before(s[j], s[k])
         IN <<s[i]>> \o Sort(SubSeq(s, 1, i - 1) \o SubSeq(s, i + 1, Len(s)))

\* start === end ? `${start}` : `${start}-${end}`
RangeText(start, end) ==
    IF start = end THEN Template(start)
    ELSE Template(start) \o <<"-">> \o Template(end)

\* for (let i = 1; i < sortedIds.length; i++) { ... } from index i on, with
\* the loop variables start, end and the ranges pushed so far.
RECURSIVE RangeLoop(_, _, _, _, _)
RangeLoop(sortedIds, i, start, end, out) ==
    IF ~(i < Len(sortedIds)) THEN <<start, end, out>>
    ELSE IF sortedIds[i + 1] - end[1] = 1
         THEN RangeLoop(sortedIds, i + 1, start, ElementAt(sortedIds, i), out)
         ELSE RangeLoop(sortedIds, i + 1, ElementAt(sortedIds, i),
                        ElementAt(sortedIds, i),
                        Append(out, RangeText(start, end)))

\* private formatRange(ids: bigint[]): string[]
formatRange(list) ==
    LET sortedIds == Sort(Dedupe(list))
        after == RangeLoop(sortedIds, 1, ElementAt(sortedIds, 0),
                           ElementAt(sortedIds, 0), <<>>)
    IN Append(after[3], RangeText(after[1], after[2]))

\* ---------------------------------------------------------------- state
VARIABLES
    marker,        \* file system: the lock files that exist
    accepted,      \* ledger: leaf hashes accepted for the target, in order
    submitter,     \* ledger: getDatasetProofSubmitter(datasetId)
    roots,         \* ledger: <<datasetId, dataType>> with a root committed
    allCompleted,  \* ledger: isDatasetProofallCompleted(datasetId, dataType)
    challenges,    \* ledger: recorded <<datasetId, auditor, seed>> tuples
    winner,        \* ledger: isWinner(datasetId, account)
    datasetProof,  \* the proof artifact on disk
    challengeProof,\* the challenge artifact on disk
    target,        \* per process: the --datasetId, --dataType and --path given
    kind,          \* the command the invocations run: "proof" or "challenge"
    pc,            \* per process: position of the submit* function
    rpc,           \* per process: position of handlerSubmitDatasetProofRoot
    acquired,      \* per process: what acquireLock returned
    submitInfo,    \* per process: the DatasetProofSubmitInfo
    retval,        \* per process: pending / final completion of the call
    txlog,         \* per process: chunk transactions submitted by this call
    rootTxs,       \* per process: root transactions submitted by this call
    chalTxs,       \* per process: challenge transactions submitted
    hist,          \* per process: observations of this call
    runs,          \* invocations started so far
    ids,           \* Matching: the id list handed to formatRange
    ranges,        \* Matching: what formatRange returned
    formatted,     \* Matching: formatRange has returned
    version,       \* metadata repo: "function" (exported functions) or "class"
    metadataFile,  \* the DatasetMetadata artifact on disk
    datasetOf,     \* ledger: getDatasetIdForAccessMethod, 0 when none
    timeouts,      \* ledger: getDatasetTimeoutParameters per dataset id
    minTimeout,    \* ledger: datasetRuleMinProofTimeout / MinAuditTimeout
    mpc,           \* position of submitDatasetMetadata
    mcall,         \* locals of the running submitDatasetMetadata call
    metaTxs,       \* submitDatasetMetadata transactions, with their outcome
    timeoutTxs,    \* updateDatasetTimeoutParameters transactions
    reports,       \* what the completed submitDatasetMetadata calls reported
    mruns          \* submitDatasetMetadata calls started so far

vars == <<marker, accepted, submitter, roots, allCompleted, challenges, winner,
          datasetProof, challengeProof, target, kind, pc, rpc, acquired, submitInfo,
          retval, txlog, rootTxs, chalTxs, hist, runs, ids, ranges,
          formatted, version, metadataFile, datasetOf, timeouts, minTimeout,
          mpc, mcall, metaTxs, timeoutTxs, reports, mruns>>

proofVars == <<marker, accepted, submitter, roots, allCompleted, challenges,
               winner, datasetProof, challengeProof, target, kind, pc, rpc, acquired,
               submitInfo, retval, txlog, rootTxs, chalTxs, hist, runs>>

\* State of the commands other than the two proof submissions.
rangeVars == <<ids, ranges, formatted>>
metaVars == <<version, metadataFile, datasetOf, timeouts, minTimeout, mpc, mcall,
              metaTxs, timeoutTxs, reports, mruns>>
otherVars == <<rangeVars, metaVars>>

ledgerVars == <<accepted, submitter, roots, allCompleted, challenges, winner>>
fileVars == <<datasetProof, challengeProof, target>>

NewHist ==
    [startIndex |-> -1,      \* counter read before the loop
     rootSaw |-> "none",     \* first submitter read of the root handler
     advResult |-> "none",   \* what handlerSubmitDatasetProof returned
     criteria |-> "none",    \* what the criteria check returned
     sawDup |-> "none", sawWinner |-> "none",
     releases |-> 0,         \* releaseLock calls
     prevRoot |-> "none",    \* how the previous root handler call ended
     prevRootTxs |-> 0,      \* and the root transactions it submitted
     prevDone |-> FALSE,     \* an earlier call saw its last chunk confirmed
     foundLock |-> FALSE]    \* acquireLock found the lock file in place

\* No other command has run.
NewCall ==
    [had |-> FALSE, datasetId |-> 0, proofBlockCount |-> 0, auditBlockCount |-> 0,
     valid |-> TRUE, txs |-> 0]

InitRangeIdle ==
    /\ ids = <<>>
    /\ ranges = <<>>
    /\ formatted = FALSE

InitMetaIdle ==
    /\ version = "class"
    /\ metadataFile = [accessMethod |-> FileAccessMethod, proofBlockCount |-> 0,
                       auditBlockCount |-> 0]
    /\ datasetOf = [a \in AccessMethods |-> 0]
    /\ timeouts = [d \in DatasetIds |-> [proofBlockCount |-> 0, auditBlockCount |-> 0]]
    /\ minTimeout = [proof |-> 0, audit |-> 0]
    /\ mpc = "idle"
    /\ mcall = NewCall
    /\ metaTxs = <<>>
    /\ timeoutTxs = <<>>
    /\ reports = <<>>
    /\ mruns = 0

\* Every invocation names the same target.
InitTarget ==
    target = [p \in Procs |-> [datasetId |-> TargetDatasetId,
                               dataType |-> DataTypeSource, path |-> ChallengePath]]

InitOther == InitTarget /\ InitRangeIdle /\ InitMetaIdle

Terminated == {"returned", "thrown", "crashed"}
Live(p) == pc[p] \notin ({"idle"} \cup Terminated)

\* The proof commands before any invocation.
InitProofs ==
    /\ marker = {}
    /\ accepted = <<>>
    /\ submitter = defaultEthAddress
    /\ roots = {}
    /\ allCompleted = FALSE
    /\ challenges = {}
    /\ \/ /\ kind = "proof"
          /\ datasetProof \in {DatasetProof(n) : n \in 0..MaxLeaves}
          /\ winner = FALSE
          /\ challengeProof = [DatasetId |-> TargetDatasetId, RandomSeed |-> Seed]
       \/ /\ kind = "challenge"
          /\ datasetProof = DatasetProof(0)
          /\ winner \in BOOLEAN
          /\ challengeProof \in {[DatasetId |-> d, RandomSeed |-> Seed] :
                                    d \in {TargetDatasetId, TargetDatasetId + 1}}
    /\ pc = [p \in Procs |-> "idle"]
    /\ rpc = [p \in Procs |-> "none"]
    /\ acquired = [p \in Procs |-> "none"]
    /\ submitInfo = [p \in Procs |-> NewSubmitInfo(0)]
    /\ retval = [p \in Procs |-> "none"]
    /\ txlog = [p \in Procs |-> <<>>]
    /\ rootTxs = [p \in Procs |-> 0]
    /\ chalTxs = [p \in Procs |-> 0]
    /\ hist = [p \in Procs |-> NewHist]
    /\ runs = 0

Init == InitProofs /\ InitOther

\* ------------------------------------------------------------ invocation
RootActive(p) == rpc[p] \in {"getSubmitter", "submitRoot", "waitRoot", "recheck"}

LockKey(p) ==
    IF kind = "proof"
    THEN ProofLockKey(target[p].datasetId, target[p].dataType)
    ELSE ChallengeLockKey(target[p].datasetId, target[p].path)
LockPath(p) == FileLock(LockKey(p))

\* A CLI command starts: submitDatasetProof or submitDatasetChallengeProofs.
Start(p, chunk) ==
    /\ pc[p] \in ({"idle"} \cup Terminated)
    /\ \A q \in Procs : q < p => pc[q] # "idle"
    /\ runs < MaxRuns
    /\ runs' = runs + 1
    /\ pc' = [pc EXCEPT ![p] = "acquire"]
    /\ rpc' = [rpc EXCEPT ![p] = "none"]
    /\ acquired' = [acquired EXCEPT ![p] = "none"]
    /\ submitInfo' = [submitInfo EXCEPT ![p] = NewSubmitInfo(chunk)]
    /\ retval' = [retval EXCEPT ![p] = "none"]
    /\ txlog' = [txlog EXCEPT ![p] = <<>>]
    /\ rootTxs' = [rootTxs EXCEPT ![p] = 0]
    /\ chalTxs' = [chalTxs EXCEPT ![p] = 0]
    /\ hist' = [hist EXCEPT ![p] =
                 [NewHist EXCEPT
                    !.prevRoot = CASE rpc[p] = "none" -> hist[p].prevRoot
                                   [] rpc[p] = "resolvedTrue" -> "true"
                                   [] rpc[p] = "resolvedFalse" -> "false"
                                   [] OTHER -> "other",
                    !.prevRootTxs = IF rpc[p] = "none" THEN hist[p].prevRootTxs
                                    ELSE rootTxs[p],
                    !.prevDone = \/ hist[p].prevDone
                                 \/ /\ hist[p].advResult = "true"
                                    /\ txlog[p] # <<>>
                                    /\ txlog[p][Len(txlog[p])].out = "applied"]]
    /\ UNCHANGED <<marker, ledgerVars, fileVars, otherVars, kind>>

\* FileLock.acquireLock: fs.writeFileSync(lockFilePath, "") creates the file
\* or truncates an existing one; it throws only when the write itself fails.
acquireLock(p, fsok) ==
    LET got == WriteSucceeds(marker, LockPath(p), fsok) IN
    /\ pc[p] = "acquire"
    /\ marker' = IF got THEN WriteFile(marker, LockPath(p)) ELSE marker
    /\ acquired' = [acquired EXCEPT ![p] = IF got THEN "true" ELSE "false"]
    /\ IF LockFailureStops(got)
       THEN /\ pc' = [pc EXCEPT ![p] = "returned"]
            /\ retval' = [retval EXCEPT ![p] = "false"]
       ELSE /\ pc' = [pc EXCEPT ![p] = IF kind = "proof" THEN "criteria" ELSE "cload"]
            /\ UNCHANGED retval
    /\ hist' = [hist EXCEPT ![p].foundLock = LockPath(p) \in marker]
    /\ UNCHANGED <<ledgerVars, fileVars, otherVars, kind, rpc, submitInfo, txlog,
                   rootTxs, chalTxs, runs>>

\* finally { lock.releaseLock() }: fs.unlinkSync throws when the file is gone,
\* and an exception thrown in finally replaces the pending completion.
releaseLock(p) ==
    /\ pc[p] = "finally"
    /\ hist' = [hist EXCEPT ![p].releases = @ + 1]
    /\ IF LockPath(p) \in marker
       THEN /\ marker' = Unlink(marker, LockPath(p))
            /\ pc' = [pc EXCEPT ![p] = IF retval[p] = "error" THEN "thrown" ELSE "returned"]
            /\ UNCHANGED retval
       ELSE /\ pc' = [pc EXCEPT ![p] = "thrown"]
            /\ retval' = [retval EXCEPT ![p] = "error"]
            /\ UNCHANGED marker
    /\ UNCHANGED <<ledgerVars, fileVars, otherVars, kind, rpc, acquired, submitInfo, txlog,
                   rootTxs, chalTxs, runs>>

\* The process dies (kill, power loss, unhandled rejection): nothing more
\* runs, finally included.
Crash(p) ==
    /\ Live(p)
    /\ pc' = [pc EXCEPT ![p] = "crashed"]
    /\ rpc' = [rpc EXCEPT ![p] = IF RootActive(p) THEN "dead" ELSE @]
    /\ submitInfo' = [submitInfo EXCEPT ![p] = NewSubmitInfo(0)]
    /\ retval' = [retval EXCEPT ![p] = "none"]
    /\ UNCHANGED <<marker, ledgerVars, fileVars, otherVars, kind, acquired, txlog, rootTxs,
                   chalTxs, hist, runs>>

\* ------------------------------------------------------ submitDatasetProof
\* if (!(await checkSubmissionProofsCriteria(...))) return true
CheckProofCriteria(p, ok) ==
    /\ pc[p] = "criteria"
    /\ IF ~ok
       THEN /\ pc' = [pc EXCEPT ![p] = "finally"]
            /\ retval' = [retval EXCEPT ![p] = "error"]
            /\ UNCHANGED hist
       ELSE IF ~checkSubmissionProofsCriteria(allCompleted)
       THEN /\ pc' = [pc EXCEPT ![p] = "finally"]
            /\ retval' = [retval EXCEPT ![p] = "true"]
            /\ hist' = [hist EXCEPT ![p].criteria = "false"]
       ELSE /\ pc' = [pc EXCEPT ![p] = "load"]
            /\ hist' = [hist EXCEPT ![p].criteria = "true"]
            /\ UNCHANGED retval
    /\ UNCHANGED <<marker, ledgerVars, fileVars, otherVars, kind, rpc, acquired, submitInfo,
                   txlog, rootTxs, chalTxs, runs>>

\* JSON.parse(fs.readFileSync(options.path).toString())
LoadProof(p, ok) ==
    /\ pc[p] = "load"
    /\ pc' = [pc EXCEPT ![p] = IF ok THEN "handler" ELSE "finally"]
    /\ retval' = [retval EXCEPT ![p] = IF ok THEN @ ELSE "error"]
    /\ UNCHANGED <<marker, ledgerVars, fileVars, otherVars, kind, rpc, acquired, submitInfo,
                   txlog, rootTxs, chalTxs, hist, runs>>

\* handlerSubmitDatasetProof up to its first await: the root handler is
\* called (it runs up to its own first await, the submitter query), the
\* returned value is tested, and the counter query is issued.
EnterHandler(p) ==
    /\ pc[p] = "handler"
    /\ rpc' = [rpc EXCEPT ![p] = "getSubmitter"]
    /\ IF JsNot(RootCallValue)
       THEN /\ pc' = [pc EXCEPT ![p] = "finally"]
            /\ retval' = [retval EXCEPT ![p] = "false"]
            /\ hist' = [hist EXCEPT ![p].advResult = "false"]
       ELSE /\ pc' = [pc EXCEPT ![p] = "getCount"]
            /\ UNCHANGED <<retval, hist>>
    /\ UNCHANGED <<marker, ledgerVars, fileVars, otherVars, kind, acquired, submitInfo,
                   txlog, rootTxs, chalTxs, runs>>

\* while (!submitInfo.completed) { ... }  return true
AfterIndex(p, info) ==
    /\ submitInfo' = [submitInfo EXCEPT ![p] = info]
    /\ IF info.completed
       THEN /\ pc' = [pc EXCEPT ![p] = "finally"]
            /\ retval' = [retval EXCEPT ![p] = "true"]
       ELSE /\ pc' = [pc EXCEPT ![p] = "submit"]
            /\ UNCHANGED retval

\* const index = await handleEvmError(getDatasetProofCount(...));
\* submitInfo.updateleafIndex(index)
GetCount(p, ok) ==
    /\ pc[p] = "getCount"
    /\ IF ~ok
       THEN /\ pc' = [pc EXCEPT ![p] = "finally"]
            /\ retval' = [retval EXCEPT ![p] = "error"]
            /\ UNCHANGED <<submitInfo, hist>>
       ELSE /\ AfterIndex(p, updateleafIndex(submitInfo[p], Len(accepted)))
            /\ hist' = [hist EXCEPT ![p].startIndex = Len(accepted),
                                    ![p].advResult = IF submitInfo[p].completed THEN "true" ELSE @]
    /\ UNCHANGED <<marker, ledgerVars, fileVars, otherVars, kind, rpc, acquired, txlog,
                   rootTxs, chalTxs, runs>>

\* The ledger applies a chunk only at its own counter; it may also reject it
\* with an error or accept the transaction without applying it.
ChunkOutcomes(info) ==
    {"dropped", "error"} \cup (IF info.leafIndex = Len(accepted) THEN {"applied"} ELSE {})

\* submitInfo.updateDatasetProof(datasetProof);
\* const tx = await handleEvmError(submitDatasetProof(datasetId, dataType,
\*     leafHashes, leafIndex, leafSizes, completed))
SubmitChunk(p, out) ==
    LET info == updateDatasetProof(submitInfo[p], datasetProof) IN
    /\ pc[p] = "submit"
    /\ Len(txlog[p]) < MaxTxs
    /\ out \in ChunkOutcomes(info)
    /\ submitInfo' = [submitInfo EXCEPT ![p] = info]
    /\ txlog' = [txlog EXCEPT ![p] = Append(@,
                  [leafIndex |-> info.leafIndex, leafHashes |-> info.leafHashes,
                   leafSizes |-> info.leafSizes, completed |-> info.completed,
                   out |-> out])]
    /\ accepted' = IF out = "applied" THEN accepted \o info.leafHashes ELSE accepted
    /\ allCompleted' = IF out = "applied" /\ info.completed THEN TRUE ELSE allCompleted
    /\ pc' = [pc EXCEPT ![p] = IF out = "error" THEN "finally" ELSE "wait"]
    /\ retval' = [retval EXCEPT ![p] = IF out = "error" THEN "error" ELSE @]
    /\ UNCHANGED <<marker, submitter, roots, challenges, winner, fileVars, otherVars, kind,
                   rpc, acquired, rootTxs, chalTxs, hist, runs>>

\* await handleEvmError(waitForBlockHeight(tx.height + chainSuccessInterval))
WaitChunk(p, ok) ==
    /\ pc[p] = "wait"
    /\ pc' = [pc EXCEPT ![p] = IF ok THEN "readback" ELSE "finally"]
    /\ retval' = [retval EXCEPT ![p] = IF ok THEN @ ELSE "error"]
    /\ UNCHANGED <<marker, ledgerVars, fileVars, otherVars, kind, rpc, acquired, submitInfo,
                   txlog, rootTxs, chalTxs, hist, runs>>

\* const index = await handleEvmError(getDatasetProofCount(...));
\* if (index !== current) return false; submitInfo.updateleafIndex(index)
ReadBack(p, ok) ==
    /\ pc[p] = "readback"
    /\ IF ~ok
       THEN /\ pc' = [pc EXCEPT ![p] = "finally"]
            /\ retval' = [retval EXCEPT ![p] = "error"]
            /\ UNCHANGED <<submitInfo, hist>>
       ELSE IF CountMismatch(Len(accepted), submitInfo[p], datasetProof)
       THEN /\ pc' = [pc EXCEPT ![p] = "finally"]
            /\ retval' = [retval EXCEPT ![p] = "false"]
            /\ hist' = [hist EXCEPT ![p].advResult = "false"]
            /\ UNCHANGED submitInfo
       ELSE /\ AfterIndex(p, updateleafIndex(submitInfo[p], Len(accepted)))
            /\ hist' = [hist EXCEPT ![p].advResult = IF submitInfo[p].completed THEN "true" ELSE @]
    /\ UNCHANGED <<marker, ledgerVars, fileVars, otherVars, kind, rpc, acquired, txlog,
                   rootTxs, chalTxs, runs>>

\* ------------------------------------------- handlerSubmitDatasetProofRoot
\* It runs as its own chain of awaits: nobody awaits the Promise it returns.
RootAlive(p) == pc[p] # "crashed"

\* const submitter = await handleEvmError(getDatasetProofSubmitter(datasetId));
\* if (submitter == defaultEthAddress) {...} else return true
RootGetSubmitter(p, ok) ==
    /\ rpc[p] = "getSubmitter"
    /\ RootAlive(p)
    /\ rpc' = [rpc EXCEPT ![p] =
                IF ~ok THEN "rejected"
                ELSE IF SubmitterIsNull(submitter) THEN "submitRoot"
                ELSE "resolvedTrue"]
    /\ hist' = [hist EXCEPT ![p].rootSaw =
                IF ~ok THEN @ ELSE IF submitter = defaultEthAddress THEN "absent" ELSE "present"]
    /\ UNCHANGED <<marker, ledgerVars, fileVars, otherVars, kind, pc, acquired, submitInfo,
                   retval, txlog, rootTxs, chalTxs, runs>>

\* const tx = await handleEvmError(submitDatasetProofRoot(datasetId, dataType,
\*     mappingFilesAccessMethod, Root))
RootSubmitTx(p, out) ==
    /\ rpc[p] = "submitRoot"
    /\ RootAlive(p)
    /\ out \in {"applied", "dropped", "error"}
    /\ rootTxs' = [rootTxs EXCEPT ![p] = @ + 1]
    /\ submitter' = IF out = "applied" /\ submitter = defaultEthAddress
                    THEN account ELSE submitter
    /\ roots' = IF out = "applied"
                THEN roots \cup {<<TargetDatasetId, DataTypeSource>>} ELSE roots
    /\ rpc' = [rpc EXCEPT ![p] = IF out = "error" THEN "rejected" ELSE "waitRoot"]
    /\ UNCHANGED <<marker, accepted, allCompleted, challenges, winner, fileVars, otherVars,
                   kind, pc, acquired, submitInfo, retval, txlog, chalTxs, hist, runs>>

\* await handleEvmError(waitForBlockHeight(tx.height + chainSuccessInterval))
RootWait(p, ok) ==
    /\ rpc[p] = "waitRoot"
    /\ RootAlive(p)
    /\ rpc' = [rpc EXCEPT ![p] = IF ok THEN "recheck" ELSE "rejected"]
    /\ UNCHANGED <<marker, ledgerVars, fileVars, otherVars, kind, pc, acquired, submitInfo,
                   retval, txlog, rootTxs, chalTxs, hist, runs>>

\* const submitter = await handleEvmError(getDatasetProofSubmitter(datasetId));
\* if (submitter == defaultEthAddress) return false; return true
RootRecheck(p, ok) ==
    /\ rpc[p] = "recheck"
    /\ RootAlive(p)
    /\ rpc' = [rpc EXCEPT ![p] =
                IF ~ok THEN "rejected"
                ELSE IF SubmitterIsNull(submitter) THEN "resolvedFalse"
                ELSE "resolvedTrue"]
    /\ UNCHANGED <<marker, ledgerVars, fileVars, otherVars, kind, pc, acquired, submitInfo,
                   retval, txlog, rootTxs, chalTxs, hist, runs>>

\* -------------------------------------------- submitDatasetChallengeProofs
ChallengeTuple(datasetId) == <<datasetId, account, challengeProof.RandomSeed>>

\* JSON.parse(fs.readFileSync(options.path).toString())
LoadChallenge(p, ok) ==
    /\ pc[p] = "cload"
    /\ pc' = [pc EXCEPT ![p] = IF ok THEN "cdup" ELSE "finally"]
    /\ retval' = [retval EXCEPT ![p] = IF ok THEN @ ELSE "error"]
    /\ UNCHANGED <<marker, ledgerVars, fileVars, otherVars, kind, rpc, acquired, submitInfo,
                   txlog, rootTxs, chalTxs, hist, runs>>

\* if (await handleEvmError(isDatasetChallengeProofDuplicate(datasetId,
\*     auditor, randomSeed))) return false
CheckDuplicate(p, ok) ==
    LET dup == ChallengeTuple(TargetDatasetId) \in challenges IN
    /\ pc[p] = "cdup"
    /\ IF ~ok
       THEN /\ pc' = [pc EXCEPT ![p] = "finally"]
            /\ retval' = [retval EXCEPT ![p] = "error"]
            /\ UNCHANGED hist
       ELSE IF DuplicateBlocks(dup)
       THEN /\ pc' = [pc EXCEPT ![p] = "finally"]
            /\ retval' = [retval EXCEPT ![p] = "false"]
            /\ hist' = [hist EXCEPT ![p].sawDup = "true", ![p].criteria = "false"]
       ELSE /\ pc' = [pc EXCEPT ![p] = "cwinner"]
            /\ hist' = [hist EXCEPT ![p].sawDup = IF dup THEN "true" ELSE "false"]
            /\ UNCHANGED retval
    /\ UNCHANGED <<marker, ledgerVars, fileVars, otherVars, kind, rpc, acquired, submitInfo,
                   txlog, rootTxs, chalTxs, runs>>

\* if (!(await handleEvmError(isWinner(datasetId, auditor)))) return false;
\* return true   -- and the caller: if (!criteria) return false
CheckWinner(p, ok) ==
    /\ pc[p] = "cwinner"
    /\ IF ~ok
       THEN /\ pc' = [pc EXCEPT ![p] = "finally"]
            /\ retval' = [retval EXCEPT ![p] = "error"]
            /\ UNCHANGED hist
       ELSE IF NotWinnerBlocks(winner)
       THEN /\ pc' = [pc EXCEPT ![p] = "finally"]
            /\ retval' = [retval EXCEPT ![p] = "false"]
            /\ hist' = [hist EXCEPT ![p].sawWinner = IF winner THEN "true" ELSE "false",
                                    ![p].criteria = "false"]
       ELSE /\ pc' = [pc EXCEPT ![p] = "csubmit"]
            /\ hist' = [hist EXCEPT ![p].sawWinner = IF winner THEN "true" ELSE "false",
                                    ![p].criteria = "true"]
            /\ UNCHANGED retval
    /\ UNCHANGED <<marker, ledgerVars, fileVars, otherVars, kind, rpc, acquired, submitInfo,
                   txlog, rootTxs, chalTxs, runs>>

\* await handleEvmError(submitDatasetChallengeProofs(DatasetId, RandomSeed,
\*     Leaves, Siblings, Paths)); return true
SubmitChallenge(p, out) ==
    /\ pc[p] = "csubmit"
    /\ out \in {"applied", "dropped", "error"}
    /\ chalTxs' = [chalTxs EXCEPT ![p] = @ + 1]
    /\ challenges' = IF out = "applied"
                     THEN challenges \cup {ChallengeTuple(challengeProof.DatasetId)}
                     ELSE challenges
    /\ pc' = [pc EXCEPT ![p] = "finally"]
    /\ retval' = [retval EXCEPT ![p] = IF out = "error" THEN "error" ELSE "true"]
    /\ UNCHANGED <<marker, accepted, submitter, roots, allCompleted, winner,
                   fileVars, otherVars, kind, rpc, acquired, submitInfo, txlog, rootTxs, hist,
                   runs>>

\* ---------------------------------------------------------- specification
Outcomes == {"applied", "dropped", "error"}

Next ==
    \/ \E p \in Solo, c \in (IF kind = "proof" THEN 0..MaxChunk ELSE {0}) : Start(p, c)
    \/ \E p \in Solo, ok \in BOOLEAN : acquireLock(p, ok)
    \/ \E p \in Solo : releaseLock(p)
    \/ \E p \in Solo : Crash(p)
    \/ \E p \in Solo, ok \in BOOLEAN : CheckProofCriteria(p, ok)
    \/ \E p \in Solo, ok \in BOOLEAN : LoadProof(p, ok)
    \/ \E p \in Solo : EnterHandler(p)
    \/ \E p \in Solo, ok \in BOOLEAN : GetCount(p, ok)
    \/ \E p \in Solo, out \in Outcomes : SubmitChunk(p, out)
    \/ \E p \in Solo, ok \in BOOLEAN : WaitChunk(p, ok)
    \/ \E p \in Solo, ok \in BOOLEAN : ReadBack(p, ok)
    \/ \E p \in Solo, ok \in BOOLEAN : RootGetSubmitter(p, ok)
    \/ \E p \in Solo, out \in Outcomes : RootSubmitTx(p, out)
    \/ \E p \in Solo, ok \in BOOLEAN : RootWait(p, ok)
    \/ \E p \in Solo, ok \in BOOLEAN : RootRecheck(p, ok)
    \/ \E p \in Solo, ok \in BOOLEAN : LoadChallenge(p, ok)
    \/ \E p \in Solo, ok \in BOOLEAN : CheckDuplicate(p, ok)
    \/ \E p \in Solo, ok \in BOOLEAN : CheckWinner(p, ok)
    \/ \E p \in Solo, out \in Outcomes : SubmitChallenge(p, out)

Spec == Init /\ [][Next]_vars

\* Two processes run submitDatasetProof on the same target at the same time,
\* once each, against a gateway that answers every call (a transaction may
\* still be accepted without being applied).
InitTwo == Init /\ kind = "proof"

NextTwo ==
    \/ \E p \in Procs, c \in 1..MaxChunk : pc[p] = "idle" /\ Start(p, c)
    \/ \E p \in Procs, ok \in BOOLEAN : acquireLock(p, ok)
    \/ \E p \in Procs : releaseLock(p)
    \/ \E p \in Procs : CheckProofCriteria(p, TRUE)
    \/ \E p \in Procs : LoadProof(p, TRUE)
    \/ \E p \in Procs : EnterHandler(p)
    \/ \E p \in Procs : GetCount(p, TRUE)
    \/ \E p \in Procs, out \in {"applied", "dropped"} : SubmitChunk(p, out)
    \/ \E p \in Procs : WaitChunk(p, TRUE)
    \/ \E p \in Procs : ReadBack(p, TRUE)
    \/ \E p \in Procs : RootGetSubmitter(p, TRUE)
    \/ \E p \in Procs, out \in {"applied", "dropped"} : RootSubmitTx(p, out)
    \/ \E p \in Procs : RootWait(p, TRUE)
    \/ \E p \in Procs : RootRecheck(p, TRUE)

SpecTwo == InitTwo /\ [][NextTwo]_vars

\* One process runs submitDatasetProof with chunk >= 1 over and over.  The
\* steps of GoodStep are those of a gateway that answers every call, a
\* ledger that applies every chunk and root transaction, and an operator who
\* starts the command again; they are taken whenever they stay possible.
\* Faults (gateway errors, transactions not applied, a lock file that cannot
\* be written, death of the process) may hit every invocation but the last
\* one of a behaviour.
InitLive == Init /\ kind = "proof"

GoodStep ==
    \/ \E p \in Solo, c \in 1..MaxChunk : Start(p, c)
    \/ \E p \in Solo : acquireLock(p, TRUE)
    \/ \E p \in Solo : releaseLock(p)
    \/ \E p \in Solo : CheckProofCriteria(p, TRUE)
    \/ \E p \in Solo : LoadProof(p, TRUE)
    \/ \E p \in Solo : EnterHandler(p)
    \/ \E p \in Solo : GetCount(p, TRUE)
    \/ \E p \in Solo : SubmitChunk(p, "applied")
    \/ \E p \in Solo : WaitChunk(p, TRUE)
    \/ \E p \in Solo : ReadBack(p, TRUE)
    \/ \E p \in Solo : RootGetSubmitter(p, TRUE)
    \/ \E p \in Solo : RootSubmitTx(p, "applied")
    \/ \E p \in Solo : RootWait(p, TRUE)
    \/ \E p \in Solo : RootRecheck(p, TRUE)

FaultStep ==
    /\ runs < MaxRuns
    /\ \/ \E p \in Solo : Crash(p)
       \/ \E p \in Solo : acquireLock(p, FALSE)
       \/ \E p \in Solo : CheckProofCriteria(p, FALSE)
       \/ \E p \in Solo : LoadProof(p, FALSE)
       \/ \E p \in Solo : GetCount(p, FALSE)
       \/ \E p \in Solo, out \in {"dropped", "error"} : SubmitChunk(p, out)
       \/ \E p \in Solo : WaitChunk(p, FALSE)
       \/ \E p \in Solo : ReadBack(p, FALSE)
       \/ \E p \in Solo : RootGetSubmitter(p, FALSE)
       \/ \E p \in Solo, out \in {"dropped", "error"} : RootSubmitTx(p, out)
       \/ \E p \in Solo : RootWait(p, FALSE)
       \/ \E p \in Solo : RootRecheck(p, FALSE)

NextLive == GoodStep \/ FaultStep

SpecLive == InitLive /\ [][NextLive]_vars /\ WF_vars(GoodStep)

\* One process runs submitDatasetProof with chunk >= 1 on longer artifacts,
\* against a gateway that answers every call and a ledger that applies every
\* chunk.  The ledger starts with the root committed and with any proper
\* prefix of the leaves accepted, as earlier invocations may have left it;
\* only runs of at most MaxTxs chunks are started.
Prefix(s, n) == SubSeq(s, 1, n)

InitWin ==
    /\ marker = {}
    /\ submitter = account
    /\ roots = {<<TargetDatasetId, DataTypeSource>>}
    /\ allCompleted = FALSE
    /\ challenges = {}
    /\ kind = "proof"
    /\ winner = FALSE
    /\ challengeProof = [DatasetId |-> TargetDatasetId, RandomSeed |-> Seed]
    /\ datasetProof \in {DatasetProof(n) : n \in 0..WinLeaves}
    /\ accepted \in {Prefix(datasetProof.LeafHashes, k) :
                        k \in {j \in 0..WinLeaves : j = 0 \/ j < Len(datasetProof.LeafHashes)}}
    /\ pc = [p \in Procs |-> "idle"]
    /\ rpc = [p \in Procs |-> "none"]
    /\ acquired = [p \in Procs |-> "none"]
    /\ submitInfo = [p \in Procs |-> NewSubmitInfo(0)]
    /\ retval = [p \in Procs |-> "none"]
    /\ txlog = [p \in Procs |-> <<>>]
    /\ rootTxs = [p \in Procs |-> 0]
    /\ chalTxs = [p \in Procs |-> 0]
    /\ hist = [p \in Procs |-> NewHist]
    /\ runs = 0
    /\ InitOther

NextWin ==
    \/ \E p \in Solo, c \in 1..WinChunk :
          /\ (Len(datasetProof.LeafHashes) - Len(accepted) + c - 1) \div c <= MaxTxs
          /\ Start(p, c)
    \/ \E p \in Solo : acquireLock(p, TRUE)
    \/ \E p \in Solo : releaseLock(p)
    \/ \E p \in Solo : CheckProofCriteria(p, TRUE)
    \/ \E p \in Solo : LoadProof(p, TRUE)
    \/ \E p \in Solo : EnterHandler(p)
    \/ \E p \in Solo : GetCount(p, TRUE)
    \/ \E p \in Solo : SubmitChunk(p, "applied")
    \/ \E p \in Solo : WaitChunk(p, TRUE)
    \/ \E p \in Solo : ReadBack(p, TRUE)
    \/ \E p \in Solo : RootGetSubmitter(p, TRUE)

SpecWin == InitWin /\ [][NextWin]_vars

\* One process runs submitDatasetProof for (datasetId, DataTypeSource)
\* against a gateway that answers every call.  The dataset either has no
\* root yet, or its submitter is already recorded because the root of its
\* other data type was committed; no root is committed for the target.
InitTypes ==
    /\ marker = {}
    /\ accepted = <<>>
    /\ \/ submitter = defaultEthAddress /\ roots = {}
       \/ submitter = account /\ roots = {<<TargetDatasetId, OtherDataType>>}
    /\ allCompleted = FALSE
    /\ challenges = {}
    /\ kind = "proof"
    /\ winner = FALSE
    /\ challengeProof = [DatasetId |-> TargetDatasetId, RandomSeed |-> Seed]
    /\ datasetProof \in {DatasetProof(n) : n \in 0..MaxLeaves}
    /\ pc = [p \in Procs |-> "idle"]
    /\ rpc = [p \in Procs |-> "none"]
    /\ acquired = [p \in Procs |-> "none"]
    /\ submitInfo = [p \in Procs |-> NewSubmitInfo(0)]
    /\ retval = [p \in Procs |-> "none"]
    /\ txlog = [p \in Procs |-> <<>>]
    /\ rootTxs = [p \in Procs |-> 0]
    /\ chalTxs = [p \in Procs |-> 0]
    /\ hist = [p \in Procs |-> NewHist]
    /\ runs = 0
    /\ InitOther

SpecTypes == InitTypes /\ [][GoodStep]_vars


\* Matching.formatIdsWithState hands a list of ids to formatRange.  The list
\* is any list of at most MaxIds ids, repeated or out of order.
IdLists == UNION {[1..n -> FirstId..(FirstId + IdSpan)] : n \in 0..MaxIds}

InitRange ==
    /\ InitProofs
    /\ kind = "proof"
    /\ datasetProof = DatasetProof(0)
    /\ ids \in IdLists
    /\ ranges = <<>>
    /\ formatted = FALSE
    /\ InitTarget
    /\ InitMetaIdle

\* const unmatchingIds: string[] = this.formatRange(options.unmatching)
FormatIds ==
    /\ ~formatted
    /\ ranges' = formatRange(ids)
    /\ formatted' = TRUE
    /\ UNCHANGED <<proofVars, ids, metaVars>>

NextRange == FormatIds

SpecRange == InitRange /\ [][NextRange]_vars


\* ------------------------------------------------- submitDatasetMetadata
\* The metadata command runs on its own, one call after the other, on the
\* same file.  The ledger may already hold the file's dataset or another
\* one; a new dataset gets the next id.
Fail ==
    /\ mpc' = "thrown"
    /\ UNCHANGED <<mcall, reports>>

\* updateDatasetTimeoutParameters({ context, datasetId, proofBlockCount:
\*     datasetMetadata.proofBlockCount, auditBlockCount: ... })
CallUpdate(had, datasetId, txs) ==
    /\ mpc' = "mins"
    /\ mcall' = [had |-> had, datasetId |-> datasetId,
                 proofBlockCount |-> metadataFile.proofBlockCount,
                 auditBlockCount |-> metadataFile.auditBlockCount,
                 valid |-> TRUE, txs |-> txs]

\* const datasetMetadata = JSON.parse(fs.readFileSync(options.path).toString())
StartMetadata ==
    /\ mpc \in {"idle", "returned", "thrown"}
    /\ mruns < MaxRuns
    /\ mruns' = mruns + 1
    /\ mpc' = "has"
    /\ mcall' = NewCall
    /\ UNCHANGED <<proofVars, rangeVars, version, metadataFile, datasetOf, timeouts,
                   minTimeout, metaTxs, timeoutTxs, reports>>

\* if (await handleEvmError(hasDatasetMetadata(datasetMetadata.accessMethod)))
HasDatasetMetadata(ok) ==
    /\ mpc = "has"
    /\ IF ~ok THEN Fail
       ELSE /\ mpc' = IF HadSubmitted(datasetOf[metadataFile.accessMethod] # 0)
                      THEN "getId" ELSE "submitMeta"
            /\ mcall' = [mcall EXCEPT !.had = datasetOf[metadataFile.accessMethod] # 0]
            /\ UNCHANGED reports
    /\ UNCHANGED <<proofVars, rangeVars, version, metadataFile, datasetOf, timeouts,
                   minTimeout, metaTxs, timeoutTxs, mruns>>

\* datasetId = await handleEvmError(getDatasetIdForAccessMethod(accessMethod))
GetDatasetIdForAccessMethod(ok) ==
    /\ mpc = "getId"
    /\ IF ~ok THEN Fail
       ELSE /\ CallUpdate(TRUE, datasetOf[metadataFile.accessMethod], mcall.txs)
            /\ UNCHANGED reports
    /\ UNCHANGED <<proofVars, rangeVars, version, metadataFile, datasetOf, timeouts,
                   minTimeout, metaTxs, timeoutTxs, mruns>>

\* The ledger numbers the datasets in the order they are registered.
NextDatasetId ==
    (CHOOSE m \in {0} \cup DatasetIds :
        /\ \A a \in AccessMethods : datasetOf[a] <= m
        /\ m = 0 \/ \E a \in AccessMethods : datasetOf[a] = m) + 1

\* datasetId = await handleEvmError(submitDatasetMetadata(client, ...,
\*     accessMethod, ...)): the id the transaction reports (its result in the
\* function version, its DatasetMetadataSubmitted event in the class version).
SubmitMetadataTx(out) ==
    /\ mpc = "submitMeta"
    /\ out \in {"applied", "error"}
    /\ metaTxs' = Append(metaTxs, [accessMethod |-> metadataFile.accessMethod,
                                   out |-> out])
    /\ IF out = "error"
       THEN /\ Fail
            /\ UNCHANGED datasetOf
       ELSE /\ datasetOf' = [datasetOf EXCEPT ![metadataFile.accessMethod] = NextDatasetId]
            /\ CallUpdate(mcall.had, NextDatasetId, mcall.txs + 1)
            /\ UNCHANGED reports
    /\ UNCHANGED <<proofVars, rangeVars, version, metadataFile, timeouts, minTimeout,
                   timeoutTxs, mruns>>

\* The two minimum queries.  The function version submits the update only
\* if (await isDatasetTimeoutParametersValid(options)); the class version
\* raises each count that is not above its minimum to the minimum plus one.
MinTimeouts(ok) ==
    /\ mpc = "mins"
    /\ IF ~ok THEN Fail
       ELSE IF version = "function"
       THEN LET valid == isDatasetTimeoutParametersValid(mcall.proofBlockCount,
                             mcall.auditBlockCount, minTimeout)
            IN /\ mpc' = IF valid THEN "updateTx" ELSE "read"
               /\ mcall' = [mcall EXCEPT !.valid = valid]
               /\ UNCHANGED reports
       ELSE /\ mpc' = "updateTx"
            /\ mcall' = [mcall EXCEPT
                           !.proofBlockCount = Raise(@, minTimeout.proof),
                           !.auditBlockCount = Raise(@, minTimeout.audit)]
            /\ UNCHANGED reports
    /\ UNCHANGED <<proofVars, rangeVars, version, metadataFile, datasetOf, timeouts,
                   minTimeout, metaTxs, timeoutTxs, mruns>>

\* const tx = await handleEvmError(updateDatasetTimeoutParameters(datasetId,
\*     options.proofBlockCount, options.auditBlockCount))
UpdateTimeoutTx(out) ==
    /\ mpc = "updateTx"
    /\ out \in Outcomes
    /\ timeoutTxs' = Append(timeoutTxs,
                        [datasetId |-> mcall.datasetId,
                         proofBlockCount |-> mcall.proofBlockCount,
                         auditBlockCount |-> mcall.auditBlockCount, out |-> out])
    /\ timeouts' = IF out = "applied"
                   THEN [timeouts EXCEPT ![mcall.datasetId] =
                            [proofBlockCount |-> mcall.proofBlockCount,
                             auditBlockCount |-> mcall.auditBlockCount]]
                   ELSE timeouts
    /\ IF out = "error" THEN Fail
       ELSE /\ mpc' = "wait"
            /\ UNCHANGED <<mcall, reports>>
    /\ UNCHANGED <<proofVars, rangeVars, version, metadataFile, datasetOf, minTimeout,
                   metaTxs, mruns>>

\* Wait chain success interval: await handleEvmError(waitForBlockHeight(...))
\* in the function version; the class version does not look at the answer.
WaitTimeout(ok) ==
    /\ mpc = "wait"
    /\ IF ~ok /\ version = "function" THEN Fail
       ELSE /\ mpc' = "read"
            /\ UNCHANGED <<mcall, reports>>
    /\ UNCHANGED <<proofVars, rangeVars, version, metadataFile, datasetOf, timeouts,
                   minTimeout, metaTxs, timeoutTxs, mruns>>

\* const state = options.proofBlockCount == parameters.proofBlockCount &&
\*     options.auditBlockCount == parameters.auditBlockCount ? true : false
TimeoutState(options, parameters) ==
    /\ options.proofBlockCount = parameters.proofBlockCount
    /\ options.auditBlockCount = parameters.auditBlockCount

\* getDatasetTimeoutParameters(datasetId), the returned { state,
\* proofBlockCount, auditBlockCount }, and the report of submitDatasetMetadata.
GetTimeoutParameters(ok) ==
    /\ mpc = "read"
    /\ IF ~ok THEN Fail
       ELSE /\ mpc' = "returned"
            /\ reports' = Append(reports,
                  [datasetId |-> mcall.datasetId,
                   state |-> TimeoutState(mcall, timeouts[mcall.datasetId]),
                   proofBlockCount |-> timeouts[mcall.datasetId].proofBlockCount,
                   auditBlockCount |-> timeouts[mcall.datasetId].auditBlockCount,
                   options |-> mcall])
            /\ UNCHANGED mcall
    /\ UNCHANGED <<proofVars, rangeVars, version, metadataFile, datasetOf, timeouts,
                   minTimeout, metaTxs, timeoutTxs, mruns>>

InitMeta ==
    /\ InitProofs
    /\ kind = "proof"
    /\ datasetProof = DatasetProof(0)
    /\ InitTarget
    /\ InitRangeIdle
    /\ version \in {"function", "class"}
    /\ metadataFile \in [accessMethod : {FileAccessMethod},
                         proofBlockCount : 0..MaxBlocks,
                         auditBlockCount : 0..MaxBlocks]
    /\ datasetOf \in {f \in [AccessMethods -> 0..Cardinality(AccessMethods)] :
                        \A d \in 1..Cardinality(AccessMethods) :
                           /\ Cardinality({a \in AccessMethods : f[a] = d}) <= 1
                           /\ (\E a \in AccessMethods : f[a] = d)
                              => \A e \in 1..d : \E a \in AccessMethods : f[a] = e}
    /\ \E t \in 0..MaxBlocks :
          timeouts = [d \in DatasetIds |-> [proofBlockCount |-> t, auditBlockCount |-> t]]
    /\ minTimeout \in [proof : 0..MaxBlocks, audit : 0..MaxBlocks]
    /\ mpc = "idle"
    /\ mcall = NewCall
    /\ metaTxs = <<>>
    /\ timeoutTxs = <<>>
    /\ reports = <<>>
    /\ mruns = 0

NextMeta ==
    \/ StartMetadata
    \/ \E ok \in BOOLEAN : HasDatasetMetadata(ok)
    \/ \E ok \in BOOLEAN : GetDatasetIdForAccessMethod(ok)
    \/ \E out \in Outcomes : SubmitMetadataTx(out)
    \/ \E ok \in BOOLEAN : MinTimeouts(ok)
    \/ \E out \in Outcomes : UpdateTimeoutTx(out)
    \/ \E ok \in BOOLEAN : WaitTimeout(ok)
    \/ \E ok \in BOOLEAN : GetTimeoutParameters(ok)

SpecMeta == InitMeta /\ [][NextMeta]_vars


\* ------------------------------------------------------------- lock keys
\* Two invocations of the same command, each with its own --datasetId and
\* --dataType (proofs) or --datasetId and --path (challenges), while the
\* gateway cannot be reached: each takes its lock, fails at its first
\* awaited call and releases in finally.
KeyDatasetIds == {TargetDatasetId, 11}
KeyDataTypes == {DataTypeSource, OtherDataType}
KeyPaths == {<<"1", ".json">>, <<"1", "1", ".json">>}
Targets == [datasetId : KeyDatasetIds, dataType : KeyDataTypes, path : KeyPaths]

InitKeys ==
    /\ InitProofs
    /\ datasetProof = DatasetProof(0)
    /\ winner = FALSE
    /\ challengeProof.DatasetId = TargetDatasetId
    /\ target \in [Procs -> Targets]
    /\ \A p \in Procs :
          IF kind = "proof" THEN target[p].path = <<"1", ".json">>
          ELSE target[p].dataType = DataTypeSource
    /\ InitRangeIdle
    /\ InitMetaIdle

NextKeys ==
    \/ \E p \in Procs : pc[p] = "idle" /\ Start(p, 1)
    \/ \E p \in Procs, ok \in BOOLEAN : acquireLock(p, ok)
    \/ \E p \in Procs : CheckProofCriteria(p, FALSE)
    \/ \E p \in Procs : LoadChallenge(p, FALSE)
    \/ \E p \in Procs : releaseLock(p)

SpecKeys == InitKeys /\ [][NextKeys]_vars

\* ============================================================ properties
NLeaves == Len(datasetProof.LeafHashes)
CeilDiv(n, w) == (n + w - 1) \div w
AllApplied(log) == \A i \in 1..Len(log) : log[i].out = "applied"

\* C1 -- Window correctness: an advance over N >= 1 leaves with windowSize
\* W >= 1 that starts with the ledger counter at 0, whose every chunk the
\* ledger accepts, and that has returned, has returned true after exactly
\* ceil(N / W) chunk transactions; the last carries completed = true and
\* every earlier one completed = false.
C1_WindowCorrectness ==
    \A p \in Procs :
        ( /\ kind = "proof"
          /\ hist[p].advResult # "none"
          /\ hist[p].startIndex = 0
          /\ NLeaves >= 1
          /\ submitInfo[p].chunk >= 1
          /\ AllApplied(txlog[p]) )
        => /\ hist[p].advResult = "true"
           /\ Len(txlog[p]) = CeilDiv(NLeaves, submitInfo[p].chunk)
           /\ \A i \in 1..Len(txlog[p]) :
                 txlog[p][i].completed <=> (i = Len(txlog[p]))

\* Several windows, the last one short.
C1_Witness ==
    \E p \in Procs :
        /\ hist[p].advResult = "true"
        /\ hist[p].startIndex = 0
        /\ NLeaves = 3
        /\ submitInfo[p].chunk = 2
        /\ Len(txlog[p]) = 2
        /\ AllApplied(txlog[p])
        /\ pc[p] = "returned"

\* C2 -- Invariant enforcement: when the counter read back after a chunk's
\* confirmation differs from windowEnd = min(position + windowSize, N), the
\* advance returns false at once; and after an advance has returned false no
\* chunk transaction is added by that invocation (no next chunk, no retry).
C2_InvariantEnforcement ==
    [][\A p \in Procs :
        /\ ( /\ pc[p] = "readback"
             /\ pc'[p] \notin {"readback", "crashed"}
             /\ retval'[p] # "error"
             /\ Len(accepted) # Min(submitInfo[p].leafIndex + submitInfo[p].chunk, NLeaves) )
           => /\ pc'[p] = "finally"
              /\ retval'[p] = "false"
              /\ hist'[p].advResult = "false"
              /\ txlog'[p] = txlog[p]
        /\ (hist[p].advResult = "false" /\ runs' = runs) => txlog'[p] = txlog[p]
      ]_vars

\* A chunk the ledger silently dropped made the advance return false.
C2_Witness ==
    \E p \in Procs :
        /\ pc[p] = "returned"
        /\ retval[p] = "false"
        /\ hist[p].advResult = "false"
        /\ Len(txlog[p]) = 2
        /\ txlog[p][2].out = "dropped"
        /\ Len(accepted) # Min(submitInfo[p].leafIndex + submitInfo[p].chunk, NLeaves)

\* C3 -- Resumability: the first chunk transaction of an advance carries the
\* offset the ledger counter had when the advance started, whatever an
\* earlier invocation did, and no transaction of the advance carries a
\* lower offset: no leaf below the counter is submitted again.
C3_Resumability ==
    \A p \in Procs :
        /\ (pc[p] = "submit" /\ txlog[p] = <<>>)
              => /\ submitInfo[p].leafIndex = Len(accepted)
                 /\ hist[p].startIndex = Len(accepted)
        /\ txlog[p] # <<>>
              => /\ txlog[p][1].leafIndex = hist[p].startIndex
                 /\ \A i \in 1..Len(txlog[p]) :
                       txlog[p][i].leafIndex >= hist[p].startIndex

\* A second invocation resumes at a counter a first one left above zero.
C3_Witness ==
    \E p \in Procs :
        /\ runs = 2
        /\ hist[p].startIndex = 2
        /\ submitInfo[p].chunk = 2
        /\ txlog[p] # <<>>
        /\ txlog[p][1].leafIndex = 2
        /\ txlog[p][1].leafHashes = <<3>>

Resolved(p) == rpc[p] \in {"resolvedTrue", "resolvedFalse"}

C5_EligibilityShortCircuit ==
    \A p \in Procs :
        (kind = "proof" /\ hist[p].criteria = "false")
        => /\ rpc[p] = "none"
           /\ hist[p].startIndex = -1
           /\ txlog[p] = <<>>
           /\ rootTxs[p] = 0
           /\ pc[p] \in {"finally", "returned", "thrown", "crashed"}
           /\ pc[p] \in {"returned", "thrown"} => (pc[p] = "returned" /\ retval[p] = "true")

\* C6 -- Challenge eligibility: a challenge transaction is submitted only
\* after the duplicate query answered false and the winner query answered
\* true; when the tuple is a duplicate or the submitter is not the winner the
\* criteria check is false, no transaction is submitted and
\* submitDatasetChallengeProofs returns false.
C6_ChallengeEligibility ==
    \A p \in Procs :
        kind = "challenge"
        => /\ chalTxs[p] > 0 => (hist[p].sawDup = "false" /\ hist[p].sawWinner = "true")
           /\ (hist[p].sawDup = "true" \/ hist[p].sawWinner = "false")
                 => hist[p].criteria = "false"
           /\ hist[p].criteria = "false"
                 => /\ chalTxs[p] = 0
                    /\ pc[p] \in {"returned", "thrown"}
                          => (pc[p] = "returned" /\ retval[p] = "false")

\* C7 -- Lock acquire contract: acquireLock returns true if and only if the
\* lock file did not exist and was created by the call; when it exists the
\* call returns false (and leaves it in place).
C7_AcquireContract ==
    [][\A p \in Procs :
        (pc[p] = "acquire" /\ pc'[p] \notin {"acquire", "crashed"})
        => /\ acquired'[p] = "true"
                 <=> (LockPath(p) \notin marker /\ LockPath(p) \in marker')
           /\ LockPath(p) \in marker => LockPath(p) \in marker'
      ]_vars

HoldsLock(p) == acquired[p] = "true" /\ Live(p) /\ pc[p] # "acquire"
ChunkInFlight(p) == pc[p] \in {"wait", "readback"}

\* C8 -- Mutual exclusion: of two submitDatasetProof invocations on the same
\* target at most one holds the lock at any time, and the two never both
\* have a chunk transaction submitted and not yet checked.
C8_MutualExclusion ==
    \A p, q \in Procs :
        p # q => /\ ~(HoldsLock(p) /\ HoldsLock(q))
                 /\ ~(ChunkInFlight(p) /\ ChunkInFlight(q))

\* C9 -- Guaranteed release: once an invocation that ran alone has returned
\* or thrown, by whatever path, its lock file does not exist.
C9_GuaranteedRelease ==
    \A p \in Procs : pc[p] \in {"returned", "thrown"} => LockPath(p) \notin marker

\* An error thrown by a gateway call in the middle of the chunk loop.
C9_Witness ==
    \E p \in Procs :
        /\ pc[p] = "thrown"
        /\ acquired[p] = "true"
        /\ hist[p].releases = 1
        /\ Len(txlog[p]) = 2
        /\ txlog[p][2].out = "error"
        /\ marker = {}

\* C10 -- Release pairing: releaseLock is invoked exactly once per
\* acquireLock that returned true, and never by an invocation whose
\* acquireLock returned false.
C10_ReleasePairing ==
    \A p \in Procs :
        /\ acquired[p] = "false" => hist[p].releases = 0
        /\ (acquired[p] = "true" /\ pc[p] \in {"returned", "thrown"}) => hist[p].releases = 1

RootFinished(p) == rpc[p] \in {"resolvedTrue", "resolvedFalse", "rejected"}

\* C11 -- Root before chunks: within one submitDatasetProof invocation the
\* chunk counter is not read and no chunk transaction is submitted before
\* the root handler has finished (its transaction, if one is needed,
\* submitted, confirmed and verified by re-reading the submitter).
C11_RootBeforeChunks ==
    \A p \in Procs :
        (kind = "proof" /\ (hist[p].startIndex # -1 \/ txlog[p] # <<>>))
        => RootFinished(p)

\* C12 -- Chunk sequentiality: within one invocation a chunk transaction
\* that is not the first is submitted only from the head of the loop, after
\* the previous chunk's transaction was accepted, its confirmation wait
\* returned and the counter read back was equal to the previous chunk's
\* windowEnd = min(position + windowSize, N).
C12_ChunkSequentiality ==
    [][\A p \in Procs :
        (Len(txlog'[p]) > Len(txlog[p]) /\ txlog[p] # <<>>)
        => LET last == txlog[p][Len(txlog[p])] IN
           /\ pc[p] = "submit"
           /\ last.out # "error"
           /\ Len(accepted) = Min(last.leafIndex + submitInfo[p].chunk, NLeaves)
           /\ submitInfo[p].leafIndex = Len(accepted)
      ]_vars

\* The third chunk of an invocation is in flight after two checked ones.
C12_Witness ==
    \E p \in Procs :
        /\ pc[p] = "wait"
        /\ submitInfo[p].chunk = 1
        /\ Len(txlog[p]) = 3
        /\ txlog[p][1].out = "applied"
        /\ txlog[p][2].out = "applied"
        /\ txlog[p][3].leafIndex = 2

\* C13 -- Root commit failure is fatal: when the root handler found the
\* submitter absent, its transaction was accepted, and the submitter read
\* again after the confirmation wait was still the default address (the
\* root handler returned false), the invocation submits no chunk
\* transaction and submitDatasetProof returns false.
C13_RootFailureFatal ==
    \A p \in Procs :
        rpc[p] = "resolvedFalse"
        => /\ hist[p].rootSaw = "absent"
           /\ rootTxs[p] = 1
           /\ txlog[p] = <<>>
           /\ pc[p] = "returned" => retval[p] = "false"

\* C14 -- Ledger errors propagate: when a gateway call made by an
\* invocation answers not ok, the invocation ends by throwing: a call whose
\* pending completion is an error never returns a value, and a call whose
\* root handler was rejected by a gateway error does not return to its
\* caller as if nothing had happened.
C14_ErrorsPropagate ==
    \A p \in Procs :
        /\ (retval[p] = "error" /\ pc[p] \in {"returned", "thrown"}) => pc[p] = "thrown"
        /\ rpc[p] = "rejected" => pc[p] # "returned"

\* Leaves of the chunk transactions of a log that the ledger applied.
RECURSIVE AppliedLeaves(_)
AppliedLeaves(log) ==
    IF log = <<>> THEN 0
    ELSE (IF log[1].out = "applied" THEN Len(log[1].leafHashes) ELSE 0)
         + AppliedLeaves(Tail(log))

\* C15 -- No partial success: submitDatasetProof returns true only if the
\* ledger reported the target complete at the eligibility check, or the
\* chunk loop ended with the counter read back equal to the number of
\* leaves of the artifact; every other outcome is a return of false or a
\* throw; and the ledger counter is the counter the invocation started from
\* plus the leaves of its chunks that the ledger applied.
C15_NoPartialSuccess ==
    \A p \in Procs :
        kind = "proof"
        => /\ pc[p] = "returned" => retval[p] \in {"true", "false"}
           /\ (pc[p] = "returned" /\ retval[p] = "true")
                 => \/ hist[p].criteria = "false" /\ allCompleted
                    \/ /\ hist[p].criteria = "true"
                       /\ hist[p].advResult = "true"
                       /\ Len(accepted) = NLeaves
           /\ hist[p].startIndex # -1
                 => Len(accepted) = hist[p].startIndex + AppliedLeaves(txlog[p])

\* A resumed run returns true with the counter at the end of the sequence.
C15_Witness ==
    \E p \in Procs :
        /\ pc[p] = "returned"
        /\ retval[p] = "true"
        /\ hist[p].criteria = "true"
        /\ hist[p].startIndex = 1
        /\ NLeaves = 3
        /\ Len(accepted) = 3
        /\ Len(txlog[p]) = 1

\* C16 -- Completed is idempotent: after an invocation whose final chunk
\* (completed = true) was applied and confirmed, a later submitDatasetProof
\* invocation on the same target whose eligibility query is answered calls
\* neither handler, submits no root and no chunk transaction, and returns
\* true.
C16_CompletedIdempotent ==
    \A p \in Procs :
        (kind = "proof" /\ hist[p].prevDone /\ hist[p].criteria # "none")
        => /\ hist[p].criteria = "false"
           /\ rpc[p] = "none"
           /\ txlog[p] = <<>>
           /\ rootTxs[p] = 0
           /\ pc[p] \in {"returned", "thrown"} => (pc[p] = "returned" /\ retval[p] = "true")

\* C17 -- No double submission or data loss across runs: whatever the
\* invocations did (returned, threw, died at any step, were started again),
\* the leaves the ledger accepted are a prefix of the artifact's leaf
\* sequence, in order, so no leaf index is accepted twice; and the chunks
\* of one invocation that the ledger applied do not overlap.
C17_NoDoubleSubmission ==
    kind = "proof"
    => /\ Len(accepted) <= NLeaves
       /\ \A i \in 1..Len(accepted) : accepted[i] = datasetProof.LeafHashes[i]
       /\ \A i, j \in 1..Len(accepted) : accepted[i] = accepted[j] => i = j
       /\ \A p \in Procs : \A i, j \in 1..Len(txlog[p]) :
             (i < j /\ txlog[p][i].out = "applied" /\ txlog[p][j].out = "applied")
             => txlog[p][i].leafIndex + Len(txlog[p][i].leafHashes) <= txlog[p][j].leafIndex

\* A second invocation resumed at leaf 1 and died after the last chunk.
C17_Witness ==
    \E p \in Procs :
        /\ runs = 2
        /\ pc[p] = "crashed"
        /\ hist[p].startIndex = 1
        /\ Len(txlog[p]) = 2
        /\ AllApplied(txlog[p])
        /\ accepted = <<1, 2, 3>>

Completed(p) ==
    /\ pc[p] = "returned"
    /\ retval[p] = "true"
    /\ allCompleted
    /\ Len(accepted) = NLeaves

\* C18 -- Convergence: with chunk >= 1, a ledger that applies each chunk,
\* confirmation waits that return and no other writer, an invocation that
\* runs to its end returns true with the ledger counter equal to the number
\* of leaves; and whenever an invocation is running, whatever faults abort
\* it, re-invoking the command under those assumptions leads to an
\* invocation that returns true with the counter at the number of leaves.
C18_Convergence ==
    /\ (\E p \in Solo : runs = MaxRuns /\ Live(p))
          ~> (\E p \in Solo : runs = MaxRuns /\ Completed(p))
    /\ (\E p \in Solo : Live(p)) ~> (\E p \in Solo : Completed(p))

\* A second invocation finished the sequence a first one left at leaf 2.
C18_Witness ==
    \E p \in Solo :
        /\ Completed(p)
        /\ runs = 2
        /\ hist[p].startIndex = 2
        /\ NLeaves = 3
        /\ ~hist[p].prevDone

Mutates(p) ==
    \/ rootTxs'[p] > rootTxs[p]
    \/ Len(txlog'[p]) > Len(txlog[p])
    \/ chalTxs'[p] > chalTxs[p]

\* C19 -- Checks before mutation: a step by which an invocation submits a
\* transaction (root, chunk or challenge) is taken only after its
\* eligibility queries were all answered in favour (not complete; not a
\* duplicate and the winner); and once the eligibility check of an
\* invocation was negative, that invocation submits no transaction.
C19_ChecksBeforeMutation ==
    [][\A p \in Procs :
        /\ Mutates(p)
              => /\ hist[p].criteria = "true"
                 /\ kind = "challenge"
                       => (hist[p].sawDup = "false" /\ hist[p].sawWinner = "true")
        /\ (hist[p].criteria = "false" /\ runs' = runs)
              => /\ ~Mutates(p)
                 /\ rootTxs[p] = 0 /\ txlog[p] = <<>> /\ chalTxs[p] = 0
      ]_vars

\* A challenge transaction went out after both queries were in favour.
C19_Witness ==
    \E p \in Procs :
        /\ kind = "challenge"
        /\ hist[p].criteria = "true"
        /\ hist[p].sawDup = "false"
        /\ hist[p].sawWinner = "true"
        /\ chalTxs[p] = 1
        /\ challenges # {}
        /\ pc[p] = "returned"

\* sequence[a : b] of the artifact, 0-based and end exclusive.
Range(seq, a, b) == [k \in 1..(b - a) |-> seq[a + k]]
WindowEnd(p, t) == Min(t.leafIndex + submitInfo[p].chunk, NLeaves)
Windows(log) == [i \in 1..Len(log) |-> <<log[i].leafIndex, log[i].leafIndex + Len(log[i].leafHashes)>>]
Flags(log) == [i \in 1..Len(log) |-> log[i].completed]

\* C20 -- Chunk payload and contiguity: every chunk transaction carries
\* offset = the position (the counter read at the start for the first
\* chunk, the previous windowEnd for a later one) and exactly the hashes
\* and the sizes of sequence[position : min(position + windowSize, N)];
\* in a run that returned true the windows are contiguous, do not overlap
\* and cover [start, N).  For N = 10 and windowSize = 4 from position 0 the
\* windows are [0:4], [4:8], [8:10], the completed flags false, false,
\* true, and the final position is 10.
C20_ChunkPayload ==
    \A p \in Solo :
        /\ \A i \in 1..Len(txlog[p]) :
              LET t == txlog[p][i] IN
              /\ t.leafIndex = IF i = 1 THEN hist[p].startIndex
                               ELSE WindowEnd(p, txlog[p][i - 1])
              /\ t.leafHashes = Range(datasetProof.LeafHashes, t.leafIndex, WindowEnd(p, t))
              /\ t.leafSizes = Range(datasetProof.LeafSizes, t.leafIndex, WindowEnd(p, t))
        /\ hist[p].advResult = "true"
              => /\ txlog[p] # <<>>
                 /\ WindowEnd(p, txlog[p][Len(txlog[p])]) = NLeaves
                 /\ submitInfo[p].leafIndex = NLeaves
        /\ ( /\ hist[p].advResult = "true"
             /\ NLeaves = 10
             /\ submitInfo[p].chunk = 4
             /\ hist[p].startIndex = 0 )
              => /\ Windows(txlog[p]) = << <<0, 4>>, <<4, 8>>, <<8, 10>> >>
                 /\ Flags(txlog[p]) = <<FALSE, FALSE, TRUE>>
                 /\ submitInfo[p].leafIndex = 10
                 /\ Len(accepted) = 10

\* The run of the example: ten leaves, windows of four, from position 0.
C20_Witness ==
    \E p \in Solo :
        /\ pc[p] = "returned"
        /\ retval[p] = "true"
        /\ NLeaves = 10
        /\ submitInfo[p].chunk = 4
        /\ hist[p].startIndex = 0
        /\ Len(txlog[p]) = 3

CursorRead(p) == hist[p].startIndex # -1 /\ pc[p] # "crashed"

\* C21 -- Cursor invariant: in every state of an invocation that has read
\* the ledger counter, 0 <= leafIndex <= N, and the completed flag of the
\* submit info is true if and only if leafIndex = N.
C21_CursorInvariant ==
    \A p \in Procs :
        (kind = "proof" /\ CursorRead(p))
        => /\ 0 <= submitInfo[p].leafIndex
           /\ submitInfo[p].leafIndex <= NLeaves
           /\ submitInfo[p].completed <=> (submitInfo[p].leafIndex = NLeaves)

\* C22 -- Empty remainder: when the counter read at the start of the chunk
\* loop already equals the number of leaves (and the ledger did not report
\* the target complete), the loop body is not entered: no chunk transaction
\* is submitted and the handler returns true.
C22_EmptyRemainder ==
    \A p \in Procs :
        (kind = "proof" /\ hist[p].startIndex = NLeaves)
        => /\ txlog[p] = <<>>
           /\ pc[p] \notin {"submit", "wait", "readback"}
           /\ hist[p].advResult = "true"

LedgerCalled(p) ==
    \/ hist[p].criteria # "none"
    \/ hist[p].sawDup # "none"
    \/ hist[p].startIndex # -1
    \/ hist[p].rootSaw # "none"
    \/ rootTxs[p] > 0
    \/ txlog[p] # <<>>
    \/ chalTxs[p] > 0

\* C23 -- LockHeld only after acquisition: an invocation makes a ledger
\* call (eligibility query, counter read, root commit, chunk or challenge
\* submit) only if its acquireLock returned true.
C23_LockHeldOnlyAfterAcquire ==
    \A p \in Procs : LedgerCalled(p) => acquired[p] = "true"

\* C24 -- Lock contention is non-fatal: whatever acquireLock returns, the
\* invocation goes on to the first step of its pipeline (the eligibility
\* check of submitDatasetProof, the artifact read of
\* submitDatasetChallengeProofs) with no result set, and every later step
\* of an invocation whose acquireLock returned false is a step of that
\* pipeline: it ends only through the finally block.
C24_ContentionNonFatal ==
    [][\A p \in Procs :
        /\ (pc[p] = "acquire" /\ pc'[p] \notin {"acquire", "crashed"})
              => /\ pc'[p] = IF kind = "proof" THEN "criteria" ELSE "cload"
                 /\ retval'[p] = "none"
        /\ (acquired[p] = "false" /\ pc'[p] \in {"returned", "thrown"} /\ runs' = runs)
              => pc[p] \in {"finally", "returned", "thrown"}
      ]_vars

\* An invocation whose acquireLock returned false committed the root and
\* submitted every chunk.
C24_Witness ==
    \E p \in Procs :
        /\ acquired[p] = "false"
        /\ rootTxs[p] = 1
        /\ rpc[p] = "resolvedTrue"
        /\ hist[p].advResult = "true"
        /\ Len(txlog[p]) = 2
        /\ AllApplied(txlog[p])
        /\ pc[p] = "finally"

\* C25 -- Confirmation gating: while the confirmation wait of a submitted
\* chunk transaction is pending the invocation does nothing but end that
\* wait (it returns, or fails with an error); and while the confirmation
\* wait of a submitted root transaction is pending the invocation takes no
\* other step: no counter read, no chunk submit, no return.
C25_ConfirmationGating ==
    [][\A p \in Procs :
        /\ (pc[p] = "wait" /\ pc'[p] # "crashed")
              => /\ pc'[p] \in {"wait", "readback", "finally"}
                 /\ pc'[p] = "finally" => retval'[p] = "error"
                 /\ txlog'[p] = txlog[p]
        /\ (rpc[p] = "waitRoot" /\ rpc'[p] = "waitRoot" /\ pc'[p] # "crashed")
              => pc'[p] = pc[p]
      ]_vars

LastTx(p) == txlog[p][Len(txlog[p])]

\* C26 -- Read-back detects lost or foreign progress: with two invocations
\* on the same target, a read-back that lets an invocation go on (it moves
\* its position to windowEnd and submits the next chunk or returns true)
\* happens only if the ledger applied that invocation's own chunk
\* transaction; when the transaction carried leaves and was not applied,
\* the invocation returns false.
C26_ReadBackDetects ==
    [][\A p \in Procs :
        ( /\ pc[p] = "readback"
          /\ pc'[p] \notin {"readback", "crashed"}
          /\ retval'[p] # "error"
          /\ LastTx(p).leafHashes # <<>>
          /\ LastTx(p).out # "applied" )
        => /\ pc'[p] = "finally"
           /\ retval'[p] = "false"
      ]_vars

\* C27 -- Root committed exactly once under concurrency: two
\* submitDatasetProof invocations on the same target, started with the root
\* absent, submit at most one root transaction between them.
C27_RootOnceConcurrent ==
    kind = "proof" => rootTxs[1] + rootTxs[2] <= 1

\* C28 -- Root existence is scoped per target: the root handler of an
\* invocation for (datasetId, DataTypeSource) returns true only if a root is
\* committed for that very target; a root committed for the dataset's other
\* data type does not suppress the root transaction.
C28_RootScopedPerTarget ==
    \A p \in Procs :
        (kind = "proof" /\ rpc[p] = "resolvedTrue")
        => <<TargetDatasetId, DataTypeSource>> \in roots

StaleLock(p) == pc[p] = "crashed" /\ acquired[p] = "true" /\ LockPath(p) \in marker

\* C29 -- Crash tolerance of the lock: when a process has died holding the
\* lock (its lock file is left behind), re-invoking submitDatasetProof on
\* the target against a gateway that answers and a ledger that applies
\* every chunk leads to an invocation that acquired the lock, returned true
\* with the ledger counter at the number of leaves, and left no lock file.
C29_CrashTolerantLock ==
    (\E p \in Solo : StaleLock(p))
        ~> (\E p \in Solo : Completed(p) /\ acquired[p] = "true" /\ marker = {})

\* An invocation that found the lock file of a dead one finished the
\* sequence from the counter the dead one had left.
C29_Witness ==
    \E p \in Solo :
        /\ hist[p].foundLock
        /\ acquired[p] = "true"
        /\ hist[p].startIndex = 1
        /\ NLeaves = 3
        /\ Completed(p)
        /\ marker = {}

\* C30 -- Release never fails: with two invocations using the same lock
\* key, an invocation whose acquireLock returned true finds the lock file
\* in place when it releases: it never ends by throwing out of the finally
\* block, and the result of its try block is what it returns.
C30_ReleaseNeverFails ==
    \A p \in Procs :
        (acquired[p] = "true" /\ pc[p] \in {"returned", "thrown"})
        => /\ pc[p] = "returned"
           /\ retval[p] \in {"true", "false"}


\* The read-back check of one loop iteration passed and the loop goes round
\* again: index === current, updateleafIndex(index), completed still false.
PassesReadBack(p) ==
    /\ kind = "proof"
    /\ pc[p] = "readback"
    /\ pc'[p] = "submit"

\* C31 -- Progress for every window size: for every chunk the command line
\* can pass, 0 included, an iteration of the chunk loop that passes the
\* read-back check leaves the loop at a strictly larger leafIndex, so the
\* same offset is never submitted again by the next iteration.
C31_ProgressEveryWindow ==
    [][\A p \in Procs :
          PassesReadBack(p) => submitInfo'[p].leafIndex > submitInfo[p].leafIndex]_vars


\* The maximal runs of consecutive ids of a set: a run starts at an id whose
\* predecessor is not in the set and ends before the first id left out.
IdSet == {ids[i] : i \in DOMAIN ids}
RunStarts == {a \in IdSet : a - 1 \notin IdSet}
RunEnd(a) == CHOOSE b \in IdSet : b >= a /\ (\A x \in a..b : x \in IdSet) /\ b + 1 \notin IdSet
RunText(a) ==
    IF RunEnd(a) = a THEN Str(a) ELSE Str(a) \o <<"-">> \o Str(RunEnd(a))

\* C32 -- formatRange returns, for every list of ids (empty, unsorted or
\* with duplicates), one string per maximal run of consecutive ids of the
\* set of input ids, in ascending order: "a" for a single id, "a-b" for a
\* longer run; an empty list gives no strings.
C32_FormatRange ==
    formatted =>
        /\ Len(ranges) = Cardinality(RunStarts)
        /\ \A k \in DOMAIN ranges :
              \E a \in RunStarts :
                 /\ Cardinality({x \in RunStarts : x < a}) = k - 1
                 /\ ranges[k] = RunText(a)


C34_TimeoutMinimums ==
    /\ \A k \in DOMAIN timeoutTxs :
          /\ timeoutTxs[k].proofBlockCount >= minTimeout.proof
          /\ timeoutTxs[k].auditBlockCount >= minTimeout.audit
    /\ \A i \in DOMAIN reports :
          reports[i].state
          <=> /\ reports[i].proofBlockCount = reports[i].options.proofBlockCount
              /\ reports[i].auditBlockCount = reports[i].options.auditBlockCount

\* The file asks for counts not above the minimums, the class version raises
\* them, the update is applied and read back, and the state is true; a later
\* call whose update is not applied returns state false.
C34_Witness ==
    /\ version = "class"
    /\ metadataFile.proofBlockCount < minTimeout.proof
    /\ metadataFile.auditBlockCount > minTimeout.audit
    /\ Len(timeoutTxs) = 1
    /\ timeoutTxs[1].out = "applied"
    /\ timeoutTxs[1].proofBlockCount = minTimeout.proof + 1
    /\ timeoutTxs[1].auditBlockCount = metadataFile.auditBlockCount
    /\ Len(reports) = 1
    /\ reports[1].state
    /\ reports[1].proofBlockCount = minTimeout.proof + 1


\* What makes two invocations name different targets: the dataset and the
\* data type for proofs, the dataset and the artifact path for challenges.
SameTarget(p, q) ==
    /\ target[p].datasetId = target[q].datasetId
    /\ IF kind = "proof" THEN target[p].dataType = target[q].dataType
       ELSE target[p].path = target[q].path

\* C35 -- Lock keys separate targets: two invocations on different targets
\* never use the same lock file, so neither takes, overwrites or deletes
\* the marker the other one is holding.
C35_LockKeysSeparateTargets ==
    \A p, q \in Procs :
        (HoldsLock(p) /\ HoldsLock(q) /\ ~SameTarget(p, q))
        => LockPath(p) # LockPath(q)

====
